---- MODULE Spec2Model ----
(***************************************************************************)
(* Model of the normalisation and scoring pipeline of                      *)
(* src/bachelor-data-processor.py (class BachelorsDataProcessor).          *)
(*                                                                         *)
(* Python values are tagged records: None, integers, strings (sequences    *)
(* of one-character strings), lists and mappings.  A call that raises      *)
(* returns a record of kind "raise" naming the exception.  Floats are      *)
(* modelled exactly: a score is a rational [num, den]; the two products    *)
(* amount * 0.85 and amount * 1.15 are the IEEE-754 double products.       *)
(***************************************************************************)
EXTENDS Integers, Sequences, FiniteSets, TLC

VARIABLES
    pc,                  \* position of the call: "call" before, "done" after
    tuition_str,         \* argument of extract_tuition_amount
    tuition_ret,         \* its return value
    program,             \* argument of process_program (a raw record)
    processed,           \* its return value (a canonical program)
    user_profile,        \* arguments of calculate_basic_match_scores
    scored_program,
    scores,              \* its return value
    programs,            \* argument of create_university_profile
    university_data,     \* its return value
    scraped_data,        \* arguments of process_all_data
    sample_user_profile,
    output,              \* its return value
    requirements_in,     \* argument of extract_language_requirements
    lang_reqs            \* its return value

vars == <<pc, tuition_str, tuition_ret, program, processed, user_profile,
          scored_program, scores, programs, university_data, scraped_data,
          sample_user_profile, output, requirements_in, lang_reqs>>

(***************************************************************************)
(* Python values                                                           *)
(***************************************************************************)
None == [kind |-> "None"]
Absent == [kind |-> "absent"]            \* the key is not in the mapping
Unused == [kind |-> "unused"]            \* variable of a call that is not running
PyInt(n) == [kind |-> "int", val |-> n]
PyStr(s) == [kind |-> "str", val |-> s]
PyList(l) == [kind |-> "list", val |-> l]
PyBool(b) == [kind |-> "bool", val |-> b]
Raise(e) == [kind |-> "raise", exc |-> e]

IsRaise(v) == v.kind = "raise"
IsInt(v) == v.kind = "int"

\* Python truth value of a tagged value (bool(v))
Truthy(v) ==
    CASE v.kind = "None" -> FALSE
      [] v.kind = "int" -> v.val # 0
      [] v.kind = "float" -> v.num # 0
      [] v.kind = "bool" -> v.val
      [] v.kind = "str" -> v.val # <<>>
      [] v.kind = "list" -> v.val # <<>>
      [] OTHER -> TRUE

(***************************************************************************)
(* Numbers: a float is the exact rational num/den in lowest terms          *)
(***************************************************************************)
RECURSIVE GCD(_, _)
GCD(a, b) == IF b = 0 THEN a ELSE GCD(b, a % b)

Abs(n) == IF n < 0 THEN -n ELSE n

PyFloat(n, d) ==
    LET g == GCD(Abs(n), Abs(d))
    IN  IF d < 0 THEN [kind |-> "float", num |-> (-n) \div g, den |-> (-d) \div g]
        ELSE [kind |-> "float", num |-> n \div g, den |-> d \div g]

IsNumber(v) == v.kind \in {"int", "float"}
Num(v) == IF v.kind = "int" THEN v.val ELSE v.num
Den(v) == IF v.kind = "int" THEN 1 ELSE v.den

NumLeq(a, b) == Num(a) * Den(b) <= Num(b) * Den(a)
NumLess(a, b) == Num(a) * Den(b) < Num(b) * Den(a)
NumEq(a, b) == Num(a) * Den(b) = Num(b) * Den(a)
NumAdd(a, b) == PyFloat(Num(a) * Den(b) + Num(b) * Den(a), Den(a) * Den(b))
NumSub(a, b) == PyFloat(Num(a) * Den(b) - Num(b) * Den(a), Den(a) * Den(b))
NumMul(a, b) == PyFloat(Num(a) * Num(b), Den(a) * Den(b))
NumDiv(a, b) == PyFloat(Num(a) * Den(b), Den(a) * Num(b))     \* b # 0
NumMax(a, b) == IF NumLess(a, b) THEN b ELSE a                \* max(a, b)

\* Strings over an alphabet, of length 0..n
RECURSIVE StringsUpTo(_, _)
StringsUpTo(alphabet, n) ==
    IF n = 0 THEN {<<>>}
    ELSE LET shorter == StringsUpTo(alphabet, n - 1)
         IN  shorter \cup {Append(s, c) : s \in {t \in shorter : Len(t) = n - 1}, c \in alphabet}

(***************************************************************************)
(* Text helpers: str.__contains__, str.replace, int(str)                   *)
(***************************************************************************)
Digits == {"0", "1", "2", "3", "4", "5", "6", "7", "8", "9"}

DigitVal(c) ==
    CASE c = "0" -> 0 [] c = "1" -> 1 [] c = "2" -> 2 [] c = "3" -> 3
      [] c = "4" -> 4 [] c = "5" -> 5 [] c = "6" -> 6 [] c = "7" -> 7
      [] c = "8" -> 8 [] c = "9" -> 9

\* needle in text
Contains(text, needle) ==
    \E i \in 1..(Len(text) - Len(needle) + 1) :
        SubSeq(text, i, i + Len(needle) - 1) = needle

\* text.replace(c, '')
RECURSIVE RemoveChar(_, _)
RemoveChar(text, c) ==
    IF text = <<>> THEN <<>>
    ELSE IF Head(text) = c THEN RemoveChar(Tail(text), c)
         ELSE <<Head(text)>> \o RemoveChar(Tail(text), c)

\* value of a non-empty string of digits
RECURSIVE DigitsValue(_)
DigitsValue(ds) ==
    IF ds = <<>> THEN 0
    ELSE 10 * DigitsValue(SubSeq(ds, 1, Len(ds) - 1)) + DigitVal(ds[Len(ds)])

\* int(s) for a string of ASCII digits: ValueError on the empty string
ParseInt(ds) ==
    IF ds = <<>> THEN Raise("ValueError") ELSE PyInt(DigitsValue(ds))

\* re.findall(r'[\d,]+', text)[0]: the first maximal run of digits and
\* commas, <<>> when findall returns the empty list
FirstNumberRun(text) ==
    LET inClass(i) == text[i] \in Digits \cup {","}
        starts == {i \in 1..Len(text) : inClass(i)}
    IN  IF starts = {} THEN <<>>
        ELSE LET first == CHOOSE i \in starts : \A j \in starts : i <= j
                 last == CHOOSE k \in first..Len(text) :
                            /\ \A j \in first..k : inClass(j)
                            /\ (k = Len(text) \/ ~inClass(k + 1))
             IN  SubSeq(text, first, last)

(***************************************************************************)
(* int(amount * rate) for the double nearest to rate = n/20.               *)
(* The double is n/20 - 1/(5 * 2^s) for both rates used (0.85: n = 17,     *)
(* s = 53; 1.15: n = 23, s = 51), so the product can fall below an exact   *)
(* integer n*amount/20 only when that quotient is an integer q and the     *)
(* deficit amount/(5 * 2^s) exceeds half the spacing 2^(e-52) of doubles   *)
(* below q, where 2^e < q <= 2^(e+1).                                      *)
(***************************************************************************)
RECURSIVE Pow2(_)
Pow2(k) == IF k = 0 THEN 1 ELSE 2 * Pow2(k - 1)

\* the e with 2^e < q <= 2^(e+1), for q >= 2; 0 for q = 1
RECURSIVE BinadeBelow(_, _)
BinadeBelow(q, e) == IF Pow2(e + 1) >= q THEN e ELSE BinadeBelow(q, e + 1)

FloatMulTrunc(amount, n, s) ==
    LET q == (n * amount) \div 20
        exact == (n * amount) % 20 = 0
        e == BinadeBelow(q, 0)
        k == 53 - s - e          \* deficit > half spacing  <=>  amount * 2^k > 5
        roundsBelow == IF k >= 0 THEN amount * Pow2(k) > 5
                       ELSE amount > 5 * Pow2(-k)
    IN  IF exact /\ q > 0 /\ roundsBelow THEN q - 1 ELSE q

UsdToEur(amount) == FloatMulTrunc(amount, 17, 53)     \* int(amount * 0.85)
GbpToEur(amount) == FloatMulTrunc(amount, 23, 51)     \* int(amount * 1.15)

(***************************************************************************)
(* extract_tuition_amount                                                  *)
(***************************************************************************)
extract_tuition_amount(str) ==
    IF ~Truthy(str) \/ str = PyStr(<<"N", "/", "A">>) THEN None
    ELSE LET text == str.val
             number == FirstNumberRun(text)
         IN  IF number = <<>> THEN None
             ELSE LET amount == ParseInt(RemoveChar(number, ","))
                  IN  IF IsRaise(amount) THEN amount
                      ELSE IF Contains(text, <<"U", "S", "D">>) \/ Contains(text, <<"$">>)
                           THEN PyInt(UsdToEur(amount.val))
                      ELSE IF Contains(text, <<"G", "B", "P">>) \/ Contains(text, <<"£">>)
                           THEN PyInt(GbpToEur(amount.val))
                      ELSE amount

(***************************************************************************)
(* Specification of a call of extract_tuition_amount                       *)
(***************************************************************************)
MaxTuitionLen == 4

TuitionAlphabet == {"0", "1", "5", ",", "$", "£", "N"}

TuitionExamples ==
    { <<"N", "/", "A">>,
      <<"$", "2", "0", ",", "0", "0", "0">>,
      <<"£", "1", "0", ",", "0", "0", "0">>,
      <<"U", "S", "D", " ", "1", "0", "0">>,
      <<"2", "0", "0", " ", "G", "B", "P">>,
      <<"u", "s", "d", " ", "2", "0">>,
      <<"F", "e", "e", ",", " ", "1", ",", "0", "0", "0">>,
      <<"F", "r", "e", "e">> }

TuitionInputs ==
    {None} \cup {PyStr(s) : s \in StringsUpTo(TuitionAlphabet, MaxTuitionLen) \cup TuitionExamples}

InitTuition ==
    /\ pc = "call"
    /\ requirements_in = Unused /\ lang_reqs = Unused
    /\ tuition_str \in TuitionInputs
    /\ tuition_ret = Unused
    /\ program = Unused /\ processed = Unused
    /\ user_profile = Unused /\ scored_program = Unused /\ scores = Unused
    /\ programs = Unused /\ university_data = Unused
    /\ scraped_data = Unused /\ sample_user_profile = Unused /\ output = Unused

ExtractTuition ==
    /\ pc = "call"
    /\ tuition_str # Unused
    /\ tuition_ret' = extract_tuition_amount(tuition_str)
    /\ pc' = "done"
    /\ UNCHANGED <<tuition_str, program, processed, user_profile, scored_program,
                   scores, programs, university_data, scraped_data,
                   sample_user_profile, output,
                   requirements_in, lang_reqs>>

NextTuition == ExtractTuition

SpecTuition == InitTuition /\ [][NextTuition]_vars

\* the digits of the first run of digits and commas, commas removed
FirstNumberDigits(text) == RemoveChar(FirstNumberRun(text), ",")

HasDigit(text) == \E i \in 1..Len(text) : text[i] \in Digits

HasUsdMarker(text) == Contains(text, <<"U", "S", "D">>) \/ Contains(text, <<"$">>)
HasGbpMarker(text) == Contains(text, <<"G", "B", "P">>) \/ Contains(text, <<"£">>)

\* C9: whenever extract_tuition_amount returns for a text whose first run of
\* digits and commas holds a number, the result is that number times 0.85
\* truncated (USD or '$' marker), times 1.15 truncated (GBP or pound-sign
\* marker), or the number itself (no marker).
C9_OneConversion ==
    (pc = "done" /\ tuition_ret # Unused /\ tuition_str.kind = "str"
        /\ tuition_str # PyStr(<<"N", "/", "A">>)
        /\ FirstNumberDigits(tuition_str.val) # <<>>)
    => LET text == tuition_str.val
           amount == DigitsValue(FirstNumberDigits(text))
       IN  tuition_ret =
               IF HasUsdMarker(text) THEN PyInt((amount * 85) \div 100)
               ELSE IF HasGbpMarker(text) THEN PyInt((amount * 115) \div 100)
               ELSE PyInt(amount)

\* C10: extract_tuition_amount never raises: it returns an integer or None,
\* and None whenever the text contains no digit.
C10_NeverRaises ==
    (pc = "done" /\ tuition_ret # Unused)
    => /\ tuition_ret.kind \in {"int", "None"}
       /\ (tuition_str.kind = "str" /\ ~HasDigit(tuition_str.val)) => tuition_ret = None

(***************************************************************************)
(* calculate_basic_match_scores                                            *)
(***************************************************************************)
\* m.get(k): None when the key is absent
Get(m, k) == IF m[k] = Absent THEN None ELSE m[k]

\* the first exception raised by a sequence of evaluated values, if any
FirstRaise(vals) ==
    LET raised == {i \in 1..Len(vals) : IsRaise(vals[i])}
    IN  IF raised = {} THEN None
        ELSE vals[CHOOSE i \in raised : \A j \in raised : i <= j]

Half == PyFloat(1, 2)
One == PyFloat(1, 1)

academic_fit == Half

financial_fit(up, p) ==
    IF ~Truthy(p.tuition_eur) THEN Half
    ELSE IF up.preferences = Absent THEN Raise("KeyError")
    ELSE IF up.preferences.budget_eur = Absent THEN Raise("KeyError")
    ELSE LET tuition == p.tuition_eur
             budget == up.preferences.budget_eur
         IN  IF ~Truthy(budget) THEN Half
             ELSE IF NumLeq(tuition, budget) THEN One
             ELSE LET over_budget_ratio == NumDiv(tuition, budget)
                  IN  NumMax(PyInt(0),
                             NumSub(PyInt(1), NumMul(NumSub(over_budget_ratio, PyInt(1)), Half)))

location_fit(up, p) ==
    IF up.preferences = Absent THEN Raise("KeyError")
    ELSE IF up.preferences.countries = Absent THEN Raise("KeyError")
    ELSE IF \E i \in 1..Len(up.preferences.countries.val) :
                up.preferences.countries.val[i] = p.country
         THEN One
         ELSE PyFloat(3, 10)

EmptyLangReq ==
    [kind |-> "dict", english_required |-> Absent, toefl_min |-> Absent,
     ielts_min |-> Absent, duolingo_min |-> Absent]

language_fit(up, p) ==
    LET lang_req == IF p.language_requirements = Absent THEN EmptyLangReq
                    ELSE p.language_requirements
    IN  IF up.academic = Absent THEN Raise("KeyError")
        ELSE IF up.academic.test_scores = Absent THEN Raise("KeyError")
        ELSE LET user_scores == up.academic.test_scores
                 compared(min, score) ==
                     Truthy(Get(lang_req, min)) /\ Truthy(Get(user_scores, score))
                 passed(min, score) == NumLeq(lang_req[min], user_scores[score])
                 tests == <<<<"toefl_min", "toefl">>, <<"ielts_min", "ielts">>,
                            <<"duolingo_min", "duolingo">>>>
                 language_matches ==
                     {i \in 1..3 : compared(tests[i][1], tests[i][2])}
             IN  IF Truthy(Get(lang_req, "english_required"))
                 THEN IF language_matches # {}
                      THEN IF \E i \in language_matches : passed(tests[i][1], tests[i][2])
                           THEN One ELSE PyFloat(1, 5)
                      ELSE Half
                 ELSE One

WeightAcademic == PyFloat(3, 10)
WeightFinancial == PyFloat(1, 4)
WeightLocation == PyFloat(1, 4)
WeightLanguage == PyFloat(1, 5)

overall_fit(a, f, l, g) ==
    NumAdd(NumAdd(NumAdd(NumAdd(PyInt(0), NumMul(a, WeightAcademic)),
                         NumMul(f, WeightFinancial)),
                  NumMul(l, WeightLocation)),
           NumMul(g, WeightLanguage))

calculate_basic_match_scores(up, p) ==
    LET a == academic_fit
        f == financial_fit(up, p)
        l == location_fit(up, p)
        g == language_fit(up, p)
        raised == FirstRaise(<<f, l, g>>)
    IN  IF raised # None THEN raised
        ELSE [kind |-> "dict", academic_fit |-> a, financial_fit |-> f,
              location_fit |-> l, language_fit |-> g,
              overall_fit |-> overall_fit(a, f, l, g)]

(***************************************************************************)
(* Specification of a call of calculate_basic_match_scores                 *)
(***************************************************************************)
MaxTuitionUnits == 7       \* tuitions 0, 50, ..., 50 * MaxTuitionUnits
MaxBudgetUnits == 1        \* budgets 0, 100, ..., 100 * MaxBudgetUnits

DE == PyStr(<<"D", "E">>)
NL == PyStr(<<"N", "L">>)
FR == PyStr(<<"F", "R">>)

Tuitions == {None} \cup {PyInt(50 * k) : k \in 0..MaxTuitionUnits}
Budgets == {Absent, None} \cup {PyInt(100 * k) : k \in 0..MaxBudgetUnits}
CountryLists == {Absent, PyList(<<>>), PyList(<<DE, NL>>)}

Preferences ==
    {Absent} \cup
    [kind : {"dict"}, budget_eur : Budgets, countries : CountryLists]

TestScores ==
    [kind : {"dict"},
     toefl : {Absent, None, PyInt(0), PyInt(95)},
     ielts : {Absent, PyFloat(6, 1), PyFloat(7, 1)},
     duolingo : {None, PyInt(100)}]

Academics == {Absent} \cup [kind : {"dict"}, test_scores : {Absent} \cup TestScores]

UserProfiles == [kind : {"dict"}, preferences : Preferences, academic : Academics]

LangReqs ==
    {Absent} \cup
    [kind : {"dict"},
     english_required : {PyBool(FALSE), PyBool(TRUE)},
     toefl_min : {None, PyInt(0), PyInt(90)},
     ielts_min : {None, PyFloat(13, 2)},
     duolingo_min : {None, PyInt(110)}]

ScoredPrograms ==
    [kind : {"dict"}, tuition_eur : Tuitions, country : {DE, FR},
     language_requirements : LangReqs]

InitScore ==
    /\ pc = "call"
    /\ requirements_in = Unused /\ lang_reqs = Unused
    /\ user_profile \in UserProfiles
    /\ scored_program \in ScoredPrograms
    /\ scores = Unused
    /\ tuition_str = Unused /\ tuition_ret = Unused
    /\ program = Unused /\ processed = Unused
    /\ programs = Unused /\ university_data = Unused
    /\ scraped_data = Unused /\ sample_user_profile = Unused /\ output = Unused

CalculateScores ==
    /\ pc = "call"
    /\ user_profile # Unused
    /\ scores' = calculate_basic_match_scores(user_profile, scored_program)
    /\ pc' = "done"
    /\ UNCHANGED <<tuition_str, tuition_ret, program, processed, user_profile,
                   scored_program, programs, university_data, scraped_data,
                   sample_user_profile, output,
                   requirements_in, lang_reqs>>

NextScore == CalculateScores

SpecScore == InitScore /\ [][NextScore]_vars

\* a value that is present and is not None
Defined(v) == v # Absent /\ v # None

ScoresReturned == pc = "done" /\ scores # Unused /\ scores.kind = "dict"

\* C2: calculate_basic_match_scores never raises and returns all five scores
\* with the documented fallbacks, for a user profile whose budget_eur,
\* country list or toefl/ielts/duolingo scores are absent and a program whose
\* tuition_eur or language_requirements is absent.
C2_ScoresNeverRaise ==
    (pc = "done" /\ scores # Unused
        /\ user_profile.preferences # Absent /\ user_profile.academic # Absent
        /\ user_profile.academic.test_scores # Absent)
    => /\ scores.kind = "dict"
       /\ user_profile.preferences.budget_eur = Absent => scores.financial_fit = Half
       /\ user_profile.preferences.countries = Absent => scores.location_fit = PyFloat(3, 10)

\* C6: financial_fit is 0.5 when tuition_eur or budget_eur is undefined; for a
\* defined tuition (0 included) and a defined budget it is 1.0 when
\* tuition <= budget and max(0, 1 - (tuition/budget - 1) * 0.5) otherwise.
C6_FinancialFit ==
    ScoresReturned
    => LET t == scored_program.tuition_eur
           b == user_profile.preferences.budget_eur
           f == scores.financial_fit
       IN  IF ~Defined(t) \/ ~Defined(b) THEN NumEq(f, Half)
           ELSE IF t.val <= b.val THEN NumEq(f, One)
           ELSE IF b.val = 0 THEN TRUE
           ELSE IF t.val >= 3 * b.val THEN Num(f) = 0
           ELSE Num(f) * 2 * b.val = (3 * b.val - t.val) * Den(f)

\* C7: language_fit is 1.0 when the program records no English requirement;
\* otherwise one comparison is made per test for which both the program
\* minimum and the user's score are defined, and language_fit is 1.0 if a
\* comparison passes, 0.2 if comparisons exist and all fail, 0.5 if none exists.
C7_LanguageFit ==
    ScoresReturned
    => LET lr == scored_program.language_requirements
           us == user_profile.academic.test_scores
           g == scores.language_fit
           english == lr # Absent /\ lr.english_required = PyBool(TRUE)
           pairs == {<<"toefl_min", "toefl">>, <<"ielts_min", "ielts">>,
                     <<"duolingo_min", "duolingo">>}
           comparisons == {pr \in pairs : Defined(lr[pr[1]]) /\ Defined(us[pr[2]])}
       IN  IF ~english THEN NumEq(g, One)
           ELSE IF comparisons = {} THEN NumEq(g, Half)
           ELSE IF \E pr \in comparisons : NumLeq(lr[pr[1]], us[pr[2]]) THEN NumEq(g, One)
           ELSE NumEq(g, PyFloat(1, 5))

(***************************************************************************)
(* Text helpers of parse_duration and extract_language_requirements        *)
(***************************************************************************)
UpperCase == <<"A", "B", "C", "D", "E", "F", "G", "H", "I", "J", "K", "L", "M", "N", "O", "P", "Q", "R", "S", "T", "U", "V", "W", "X", "Y", "Z">>
LowerCase == <<"a", "b", "c", "d", "e", "f", "g", "h", "i", "j", "k", "l", "m", "n", "o", "p", "q", "r", "s", "t", "u", "v", "w", "x", "y", "z">>

\* str.lower() on the ASCII letters
LowerChar(c) ==
    IF \E i \in 1..26 : UpperCase[i] = c
    THEN LowerCase[CHOOSE i \in 1..26 : UpperCase[i] = c]
    ELSE c

Lower(text) == [i \in 1..Len(text) |-> LowerChar(text[i])]

WhiteSpace == {" ", "\t", "\n"}

MinOf(S) == CHOOSE i \in S : \A j \in S : i <= j

\* the end of the maximal run of characters of class cls that starts at i
RunEnd(text, i, cls) ==
    CHOOSE k \in i..Len(text) :
        /\ \A j \in i..k : text[j] \in cls
        /\ (k = Len(text) \/ text[k + 1] \notin cls)

\* text[i:i+len(word)] == word
WordAt(text, i, word) ==
    /\ i >= 1
    /\ i + Len(word) - 1 <= Len(text)
    /\ SubSeq(text, i, i + Len(word) - 1) = word

\* re.search(r'(\d+)\s*' + unit, text).group(1), <<>> when there is no match
DurationNumber(text, unit) ==
    LET afterRun(i) == RunEnd(text, i, Digits) + 1
        afterSpace(k) == IF k <= Len(text) /\ text[k] \in WhiteSpace
                         THEN RunEnd(text, k, WhiteSpace) + 1 ELSE k
        matches == {i \in 1..Len(text) :
                        text[i] \in Digits /\ WordAt(text, afterSpace(afterRun(i)), unit)}
    IN  IF matches = {} THEN <<>>
        ELSE SubSeq(text, MinOf(matches), RunEnd(text, MinOf(matches), Digits))

\* re.search(keyword + r'.*?([cls]+)', text).group(1), <<>> when there is no
\* match; '.' does not match a newline
KeywordNumber(text, keyword, cls) ==
    LET hits(i) == {k \in (i + Len(keyword))..Len(text) :
                        /\ text[k] \in cls
                        /\ \A j \in (i + Len(keyword))..(k - 1) : text[j] # "\n"}
        matches == {i \in 1..Len(text) : WordAt(text, i, keyword) /\ hits(i) # {}}
    IN  IF matches = {} THEN <<>>
        ELSE LET k == MinOf(hits(MinOf(matches)))
             IN  SubSeq(text, k, RunEnd(text, k, cls))

RECURSIVE Pow10(_)
Pow10(k) == IF k = 0 THEN 1 ELSE 10 * Pow10(k - 1)

\* float(s) for a string of digits and full stops: ValueError unless it has
\* at least one digit and at most one full stop
ParseFloat(s) ==
    LET dots == {i \in 1..Len(s) : s[i] = "."}
        digits == RemoveChar(s, ".")
    IN  IF Cardinality(dots) > 1 \/ digits = <<>> THEN Raise("ValueError")
        ELSE IF dots = {} THEN PyFloat(DigitsValue(digits), 1)
        ELSE PyFloat(DigitsValue(digits), Pow10(Len(s) - MinOf(dots)))

\* sep.join(list)
RECURSIVE Join(_, _)
Join(sep, list) ==
    IF list = <<>> THEN <<>>
    ELSE IF Len(list) = 1 THEN list[1]
    ELSE list[1] \o sep \o Join(sep, Tail(list))

(***************************************************************************)
(* parse_duration                                                          *)
(***************************************************************************)
parse_duration(str) ==
    IF ~Truthy(str) \/ str = PyStr(<<"N", "/", "A">>) THEN None
    ELSE LET text == Lower(str.val)
             year_match == DurationNumber(text, <<"y", "e", "a", "r">>)
             month_match == DurationNumber(text, <<"m", "o", "n", "t", "h">>)
         IN  IF year_match # <<>> THEN PyInt(DigitsValue(year_match) * 12)
             ELSE IF month_match # <<>> THEN PyInt(DigitsValue(month_match))
             ELSE None

(***************************************************************************)
(* extract_language_requirements                                           *)
(***************************************************************************)
DefaultLangReqs ==
    [kind |-> "dict", english_required |-> PyBool(FALSE), toefl_min |-> None,
     ielts_min |-> None, duolingo_min |-> None]

extract_language_requirements(requirements) ==
    IF requirements.kind \notin {"list", "str"} THEN DefaultLangReqs
    ELSE LET req_text == Lower(IF requirements.kind = "list"
                               THEN Join(<<" ">>, requirements.val)
                               ELSE requirements.val)
             toefl_match == KeywordNumber(req_text, <<"t", "o", "e", "f", "l">>, Digits)
             ielts_match == KeywordNumber(req_text, <<"i", "e", "l", "t", "s">>, Digits \cup {"."})
             duolingo_match == KeywordNumber(req_text, <<"d", "u", "o", "l", "i", "n", "g", "o">>, Digits)
             ielts_min == IF ielts_match # <<>> THEN ParseFloat(ielts_match) ELSE None
         IN  IF IsRaise(ielts_min) THEN ielts_min
             ELSE [kind |-> "dict",
                   english_required |-> PyBool(Contains(req_text, <<"e", "n", "g", "l", "i", "s", "h">>)),
                   toefl_min |-> IF toefl_match # <<>>
                                 THEN PyInt(DigitsValue(toefl_match)) ELSE None,
                   ielts_min |-> ielts_min,
                   duolingo_min |-> IF duolingo_match # <<>>
                                    THEN PyInt(DigitsValue(duolingo_match)) ELSE None]

(***************************************************************************)
(* process_program                                                         *)
(***************************************************************************)
OverviewLimit == 500

\* program.get(key, default)
GetOr(m, k, default) == IF m[k] = Absent THEN default ELSE m[k]

\* text.split('/')[-1]
LastSegment(text) ==
    LET slashes == {i \in 1..Len(text) : text[i] = "/"}
    IN  IF slashes = {} THEN text
        ELSE SubSeq(text, (CHOOSE i \in slashes : \A j \in slashes : j <= i) + 1, Len(text))

\* str(hash(title)): a token that is the same for equal titles within a run
HashToken(title) == <<"#">> \o title.val

\* program.get('url', '').split('/')[-1] or f"prog_{hash(program['title'])}"
ProgramId(p) ==
    LET segment == LastSegment(GetOr(p, "url", PyStr(<<>>)).val)
    IN  IF segment # <<>> THEN PyStr(segment)
        ELSE IF p.title = Absent THEN Raise("KeyError")
        ELSE PyStr(<<"p", "r", "o", "g", "_">> \o HashToken(p.title))

\* program['requirements'] if it is a str else ' '.join(program['requirements'])
RequirementsText(requirements) ==
    CASE requirements.kind = "str" -> requirements
      [] requirements.kind = "list" -> PyStr(Join(<<" ">>, requirements.val))
      [] requirements.kind = "dict" -> PyStr(Join(<<" ">>, requirements.keys))

ZeroScores ==
    [kind |-> "dict", academic_fit |-> PyFloat(0, 1), financial_fit |-> PyFloat(0, 1),
     location_fit |-> PyFloat(0, 1), language_fit |-> PyFloat(0, 1),
     overall_fit |-> PyFloat(0, 1)]

process_program(p, now) ==
    LET id == ProgramId(p)
        tuition_eur == extract_tuition_amount(GetOr(p, "tuition_fee", PyStr(<<>>)))
        language_requirements ==
            IF p.requirements = Absent THEN Absent
            ELSE extract_language_requirements(p.requirements)
        raised == FirstRaise(<<id, tuition_eur, language_requirements>>)
    IN  IF raised # None THEN raised
        ELSE [kind |-> "dict",
              id |-> id,
              title |-> GetOr(p, "title", PyStr(<<"U", "n", "k", "n", "o", "w", "n", " ", "P", "r", "o", "g", "r", "a", "m">>)),
              university |-> GetOr(p, "university", PyStr(<<"U", "n", "k", "n", "o", "w", "n", " ", "U", "n", "i", "v", "e", "r", "s", "i", "t", "y">>)),
              country |-> IF Truthy(Get(p, "country")) THEN p.country
                          ELSE GetOr(p, "search_country", PyStr(<<"U", "n", "k", "n", "o", "w", "n">>)),
              city |-> GetOr(p, "city", PyStr(<<"U", "n", "k", "n", "o", "w", "n">>)),
              discipline |-> GetOr(p, "search_discipline", PyStr(<<"U", "n", "k", "n", "o", "w", "n">>)),
              duration_months |-> parse_duration(GetOr(p, "duration", PyStr(<<>>))),
              tuition_eur |-> tuition_eur,
              deadline |-> GetOr(p, "deadline", PyStr(<<"N", "/", "A">>)),
              url |-> GetOr(p, "url", PyStr(<<>>)),
              scraped_at |-> GetOr(p, "scraped_at", now),
              language_requirements |-> language_requirements,
              requirements_text |-> IF p.requirements = Absent THEN Absent
                                    ELSE RequirementsText(p.requirements),
              overview |-> IF p.overview = Absent THEN Absent
                           ELSE PyStr(SubSeq(p.overview.val, 1,
                                             IF Len(p.overview.val) < OverviewLimit
                                             THEN Len(p.overview.val) ELSE OverviewLimit)),
              specializations |-> p.subjects,
              matching_scores |-> ZeroScores]

(***************************************************************************)
(* Specification of a call of process_program                              *)
(***************************************************************************)
MaxOverviewExcess == 1     \* the long overview has OverviewLimit + MaxOverviewExcess characters

Clock == {PyStr(<<"t", "1">>), PyStr(<<"t", "2">>)}

RawTitles == {Absent, PyStr(<<"C", "S">>)}
RawUrls == {Absent, PyStr(<<"u", "/", "a">>), PyStr(<<"u", "/">>)}
RawTuitionFees == {Absent, PyStr(<<"$", "1", ",", "0", "0", "0">>), PyStr(<<"F", "e", "e", ",", " ", "9", "0", "0">>)}
RawDurations == {Absent, PyStr(<<"1", "8", " ", "M", "o", "n", "t", "h", "s">>)}
RawRequirements ==
    {Absent,
     PyList(<<<<"B", "a", "c", "h", "e", "l", "o", "r", "'", "s", " ", "d", "e", "g", "r", "e", "e", " ", "r", "e", "q", "u", "i", "r", "e", "d">>, <<"T", "O", "E", "F", "L", " ", "9", "0", " ", "o", "r", " ", "I", "E", "L", "T", "S", " ", "6", ".", "5">>>>),
     [kind |-> "dict", keys |-> <<<<"e", "n", "g", "l", "i", "s", "h">>, <<"t", "o", "e", "f", "l">>>>],
     PyStr(<<"I", "E", "L", "T", "S", " ", "6", ".", "5", ".">>)}
RawOverviews ==
    {Absent,
     PyStr([i \in 1..(OverviewLimit + MaxOverviewExcess) |-> IF i <= OverviewLimit THEN "a" ELSE "b"])}

RawPrograms ==
    [kind : {"dict"},
     title : RawTitles,
     university : {Absent, PyStr(<<"T", "U">>)},
     country : {Absent, PyStr(<<>>), DE},
     search_country : {Absent, NL},
     city : {Absent, PyStr(<<"B", "o", "n", "n">>)},
     search_discipline : {Absent, PyStr(<<"I", "T">>)},
     duration : RawDurations,
     tuition_fee : RawTuitionFees,
     deadline : {Absent, PyStr(<<"M", "a", "y">>)},
     url : RawUrls,
     scraped_at : {Absent, PyStr(<<"t", "0">>)},
     requirements : RawRequirements,
     overview : RawOverviews,
     subjects : {Absent, PyList(<<<<"A", "I">>>>)}]

InitProgram ==
    /\ pc = "call"
    /\ requirements_in = Unused /\ lang_reqs = Unused
    /\ program \in RawPrograms
    /\ processed = Unused
    /\ tuition_str = Unused /\ tuition_ret = Unused
    /\ user_profile = Unused /\ scored_program = Unused /\ scores = Unused
    /\ programs = Unused /\ university_data = Unused
    /\ scraped_data = Unused /\ sample_user_profile = Unused /\ output = Unused

ProcessProgram ==
    /\ pc = "call"
    /\ program # Unused
    /\ \E now \in Clock : processed' = process_program(program, now)
    /\ pc' = "done"
    /\ UNCHANGED <<tuition_str, tuition_ret, program, user_profile, scored_program,
                   scores, programs, university_data, scraped_data,
                   sample_user_profile, output,
                   requirements_in, lang_reqs>>

NextProgram == ProcessProgram

SpecProgram == InitProgram /\ [][NextProgram]_vars

\* C1: process_program never raises: whatever subset of the raw fields is
\* absent (requirements being a string, a list of strings or a mapping), it
\* returns a canonical program with the documented defaults: tuition_eur and
\* duration_months None, title 'Unknown Program', university
\* 'Unknown University', and the five matching scores 0.0.
C1_ProcessNeverRaises ==
    (pc = "done" /\ processed # Unused)
    => /\ processed.kind = "dict"
       /\ program.tuition_fee = Absent => processed.tuition_eur = None
       /\ program.duration = Absent => processed.duration_months = None
       /\ program.title = Absent => processed.title = PyStr(<<"U", "n", "k", "n", "o", "w", "n", " ", "P", "r", "o", "g", "r", "a", "m">>)
       /\ program.university = Absent => processed.university = PyStr(<<"U", "n", "k", "n", "o", "w", "n", " ", "U", "n", "i", "v", "e", "r", "s", "i", "t", "y">>)
       /\ \A k \in {"academic_fit", "financial_fit", "location_fit", "language_fit",
                    "overall_fit"} : Num(processed.matching_scores[k]) = 0

(***************************************************************************)
(* create_university_profile                                               *)
(* A profile's countries, cities and disciplines are kept as sets: the     *)
(* order of list(set) is not determined by the program.                    *)
(***************************************************************************)
Infinity == [kind |-> "inf"]             \* float('inf')

\* min(uni['min_tuition'], tuition) and max(uni['max_tuition'], tuition)
MinTuition(current, tuition) ==
    IF current = Infinity THEN tuition
    ELSE IF NumLess(tuition, current) THEN tuition ELSE current

\* a maximum that keeps the tuition seen last
MaxTuitionLast(current, tuition) == tuition

MaxTuition(current, tuition) == IF NumLess(current, tuition) THEN tuition ELSE current

NewProfile(uni_name) ==
    [name |-> uni_name, programs |-> <<>>, countries |-> {}, cities |-> {},
     disciplines |-> {}, min_tuition |-> Infinity, max_tuition |-> PyInt(0),
     avg_tuition |-> <<>>]

\* the body of the loop over the programs
AddProgram(university_data_, p) ==
    LET uni_name == p.university
        uni == IF uni_name \in DOMAIN university_data_ THEN university_data_[uni_name]
               ELSE NewProfile(uni_name)
        counted == Truthy(p.tuition_eur)
        updated ==
            [uni EXCEPT !.programs = Append(uni.programs, p.id),
                        !.countries = uni.countries \cup {p.country},
                        !.cities = uni.cities \cup {p.city},
                        !.disciplines = uni.disciplines \cup {p.discipline},
                        !.min_tuition = IF counted THEN MinTuition(uni.min_tuition, p.tuition_eur)
                                        ELSE uni.min_tuition,
                        !.max_tuition = IF counted THEN MaxTuition(uni.max_tuition, p.tuition_eur)
                                        ELSE uni.max_tuition,
                        !.avg_tuition = IF counted THEN Append(uni.avg_tuition, p.tuition_eur)
                                        ELSE uni.avg_tuition]
    IN  [n \in DOMAIN university_data_ \cup {uni_name} |->
            IF n = uni_name THEN updated ELSE university_data_[n]]

RECURSIVE FoldPrograms(_, _)
FoldPrograms(university_data_, list) ==
    IF list = <<>> THEN university_data_
    ELSE FoldPrograms(AddProgram(university_data_, Head(list)), Tail(list))

RECURSIVE SumOf(_)
SumOf(list) == IF list = <<>> THEN 0 ELSE Head(list).val + SumOf(Tail(list))

\* np.mean(list)
Mean(list) == PyFloat(SumOf(list), Len(list))

\* the finalisation loop
Finalize(uni) ==
    [uni EXCEPT !.avg_tuition = IF uni.avg_tuition # <<>> THEN Mean(uni.avg_tuition) ELSE None,
                !.min_tuition = IF uni.min_tuition = Infinity THEN None ELSE uni.min_tuition]

create_university_profile(list) ==
    LET university_data_ == FoldPrograms(<<>>, list)
    IN  [n \in DOMAIN university_data_ |-> Finalize(university_data_[n])]

(***************************************************************************)
(* Specification of a call of create_university_profile                    *)
(***************************************************************************)
MaxPrograms == 3
MaxAggTuitionUnits == 2    \* tuitions 0, 100, ..., 100 * MaxAggTuitionUnits

TU == PyStr(<<"T", "U">>)
MIT == PyStr(<<"M", "I", "T">>)

\* a canonical program; the German ones have id a and city Bonn, the Dutch ones
\* id b and city Delft
CanonicalProgram(university, country, tuition_eur) ==
    [kind |-> "dict",
     id |-> IF country = DE THEN PyStr(<<"a">>) ELSE PyStr(<<"b">>),
     university |-> university, country |-> country,
     city |-> IF country = DE THEN PyStr(<<"B", "o", "n", "n">>)
              ELSE PyStr(<<"D", "e", "l", "f", "t">>),
     discipline |-> PyStr(<<"I", "T">>), tuition_eur |-> tuition_eur]

AggTuitions == {None} \cup {PyInt(100 * k) : k \in 0..MaxAggTuitionUnits}

CanonicalPrograms ==
    {CanonicalProgram(TU, country, t) : country \in {DE, NL}, t \in AggTuitions}
    \cup {CanonicalProgram(MIT, DE, t) : t \in AggTuitions}

RECURSIVE SeqsUpTo(_, _)
SeqsUpTo(S, n) ==
    IF n = 0 THEN {<<>>}
    ELSE LET shorter == SeqsUpTo(S, n - 1)
         IN  shorter \cup {Append(q, x) : q \in {t \in shorter : Len(t) = n - 1}, x \in S}

InitAggregate ==
    /\ pc = "call"
    /\ requirements_in = Unused /\ lang_reqs = Unused
    /\ programs \in {PyList(l) : l \in SeqsUpTo(CanonicalPrograms, MaxPrograms)}
    /\ university_data = Unused
    /\ tuition_str = Unused /\ tuition_ret = Unused
    /\ program = Unused /\ processed = Unused
    /\ user_profile = Unused /\ scored_program = Unused /\ scores = Unused
    /\ scraped_data = Unused /\ sample_user_profile = Unused /\ output = Unused

CreateUniversityProfile ==
    /\ pc = "call"
    /\ programs # Unused
    /\ university_data' = [kind |-> "dict", items |-> create_university_profile(programs.val)]
    /\ pc' = "done"
    /\ UNCHANGED <<tuition_str, tuition_ret, program, processed, user_profile,
                   scored_program, scores, programs, scraped_data,
                   sample_user_profile, output,
                   requirements_in, lang_reqs>>

NextAggregate == CreateUniversityProfile

SpecAggregate == InitAggregate /\ [][NextAggregate]_vars

ProfilesReturned == pc = "done" /\ university_data # Unused

\* the defined (not None) tuitions of the programs of institution n, in order
RECURSIVE DefinedTuitions(_, _)
DefinedTuitions(list, n) ==
    IF list = <<>> THEN <<>>
    ELSE (IF Head(list).university = n /\ Head(list).tuition_eur # None
          THEN <<Head(list).tuition_eur>> ELSE <<>>) \o DefinedTuitions(Tail(list), n)

\* C4: for every institution with at least one program whose tuition_eur is
\* defined, the profile has min_tuition <= avg_tuition <= max_tuition, min and
\* max being the smallest and largest defined tuition and avg their mean.
C4_MinAvgMax ==
    ProfilesReturned
    => \A n \in DOMAIN university_data.items :
          LET uni == university_data.items[n]
              defined == DefinedTuitions(programs.val, n)
              values == {defined[i].val : i \in 1..Len(defined)}
          IN  defined # <<>>
              => /\ uni.min_tuition # None /\ uni.avg_tuition # None
                 /\ uni.min_tuition.val = CHOOSE v \in values : \A w \in values : v <= w
                 /\ uni.max_tuition.val = CHOOSE v \in values : \A w \in values : w <= v
                 /\ Num(uni.avg_tuition) * Len(defined) = SumOf(defined) * Den(uni.avg_tuition)
                 /\ NumLeq(uni.min_tuition, uni.avg_tuition)
                 /\ NumLeq(uni.avg_tuition, uni.max_tuition)

\* C5: min_tuition, max_tuition and avg_tuition of a profile are all three
\* None if and only if no program of the institution has a defined tuition_eur
\* (0 counts as defined); otherwise all three are defined.
C5_UndefinedTogether ==
    ProfilesReturned
    => \A n \in DOMAIN university_data.items :
          LET uni == university_data.items[n]
              none == DefinedTuitions(programs.val, n) = <<>>
          IN  /\ none => uni.min_tuition = None /\ uni.max_tuition = None
                          /\ uni.avg_tuition = None
              /\ ~none => uni.min_tuition # None /\ uni.max_tuition # None
                          /\ uni.avg_tuition # None

(***************************************************************************)
(* prepare_for_ai_matching and process_all_data                            *)
(***************************************************************************)
TopMatches == 50

\* self.matching_criteria, a constant of the processor
matching_criteria ==
    [kind |-> "dict",
     keys |-> <<<<"a", "c", "a", "d", "e", "m", "i", "c">>, <<"f", "i", "n", "a", "n", "c", "i", "a", "l">>, <<"l", "o", "c", "a", "t", "i", "o", "n">>, <<"p", "r", "o", "g", "r", "a", "m">>, <<"r", "e", "q", "u", "i", "r", "e", "m", "e", "n", "t", "s">>>>]

prepare_for_ai_matching(up, list) ==
    [kind |-> "dict",
     user_profile |->
         [kind |-> "dict",
          academic |->
              [kind |-> "dict",
               gpa |-> GetOr(up, "gpa", PyInt(0)),
               degree_level |-> GetOr(up, "degree_level", PyStr(<<>>)),
               field_of_study |-> GetOr(up, "field_of_study", PyStr(<<>>)),
               test_scores |->
                   [kind |-> "dict",
                    sat |-> Get(up, "sat_score"),
                    toefl |-> Get(up, "toefl_score"),
                    ielts |-> Get(up, "ielts_score"),
                    duolingo |-> Get(up, "duolingo_score")]],
          preferences |->
              [kind |-> "dict",
               countries |-> GetOr(up, "preferred_countries", PyList(<<>>)),
               budget_eur |-> GetOr(up, "budget_range", PyInt(0)),
               funding_sources |-> GetOr(up, "funding_sources", PyStr(<<>>)),
               disciplines |-> PyList(<<GetOr(up, "field_of_study", PyStr(<<>>))>>)],
          languages |-> GetOr(up, "languages", PyList(<<>>))],
     programs |-> PyList(list),
     matching_criteria |-> matching_criteria]

\* bool(sample_user_profile): None and the empty mapping are false
Supplied(up) ==
    /\ up # None
    /\ \E k \in DOMAIN up \ {"kind"} : up[k] # Absent

\* the loop body: process_program, then the scores when a profile is supplied
AttachScores(processed_, scores_) ==
    IF IsRaise(scores_) THEN scores_
    ELSE [processed_ EXCEPT !.matching_scores = scores_]

ScoreProcessed(processed_, up) ==
    IF IsRaise(processed_) \/ ~Supplied(up) THEN processed_
    ELSE AttachScores(processed_, calculate_basic_match_scores(up, processed_))

ProcessAndScore(p, up, now) == ScoreProcessed(process_program(p, now), up)

\* list.sort(key=overall_fit, reverse=True): stable, descending
SortKey(p) == p.matching_scores.overall_fit

\* a sort that places a program before the programs it ties with
RECURSIVE InsertDescendingBeforeTies(_, _)
InsertDescendingBeforeTies(sorted, x) ==
    IF sorted = <<>> THEN <<x>>
    ELSE IF NumLeq(SortKey(Head(sorted)), SortKey(x)) THEN <<x>> \o sorted
    ELSE <<Head(sorted)>> \o InsertDescendingBeforeTies(Tail(sorted), x)

RECURSIVE InsertDescending(_, _)
InsertDescending(sorted, x) ==
    IF sorted = <<>> THEN <<x>>
    ELSE IF NumLess(SortKey(Head(sorted)), SortKey(x)) THEN <<x>> \o sorted
    ELSE <<Head(sorted)>> \o InsertDescending(Tail(sorted), x)

RECURSIVE SortDescending(_)
SortDescending(list) ==
    IF list = <<>> THEN <<>>
    ELSE InsertDescending(SortDescending(SubSeq(list, 1, Len(list) - 1)), list[Len(list)])

\* a snapshot that is not capped
PrefixUncapped(list, n) == list

\* processed_programs[:n]
Prefix(list, n) == SubSeq(list, 1, IF Len(list) < n THEN Len(list) ELSE n)

\* the list handed to create_university_profile: the processed programs in
\* input order, or the first exception raised in the loop
ListOrRaise(all, raised) == IF raised # None THEN raised ELSE PyList(all)

ListOrFirstRaise(all) == ListOrRaise(all, FirstRaise(all))

ProcessEach(raw, up, nows) ==
    ListOrFirstRaise([i \in 1..Len(raw) |-> ProcessAndScore(raw[i], up, nows[i])])

ProcessedPrograms(data, up, nows) ==
    ProcessEach(GetOr(data, "programs", PyList(<<>>)).val, up, nows)

\* the envelope built from the processed programs
Output(sorted, university_profiles, up, processed_at) ==
    [kind |-> "dict",
     metadata |->
         [kind |-> "dict",
          total_programs |-> PyInt(Len(sorted)),
          total_universities |-> PyInt(Cardinality(DOMAIN university_profiles)),
          countries |-> {sorted[i].country : i \in 1..Len(sorted)},
          disciplines |-> {sorted[i].discipline : i \in 1..Len(sorted)},
          processed_at |-> processed_at],
     programs |-> PyList(sorted),
     universities |-> [kind |-> "dict", items |-> university_profiles],
     matching_data |-> IF Supplied(up)
                       THEN prepare_for_ai_matching(up, Prefix(sorted, TopMatches))
                       ELSE Absent]

Envelope(processed_programs, university_profiles, up, processed_at) ==
    Output(IF Supplied(up) THEN SortDescending(processed_programs) ELSE processed_programs,
           university_profiles, up, processed_at)

\* nows: the values of datetime.now() read for the records and, last, for
\* metadata.processed_at
EnvelopeOrRaise(processed_programs, up, processed_at) ==
    IF IsRaise(processed_programs) THEN processed_programs
    ELSE Envelope(processed_programs.val,
                  create_university_profile(processed_programs.val), up, processed_at)

process_all_data(data, up, nows) ==
    EnvelopeOrRaise(ProcessedPrograms(data, up, nows), up, nows[Len(nows)])

(***************************************************************************)
(* Specification of a call of process_all_data                             *)
(***************************************************************************)
MaxBatch == 3

RawRecord(title, university, country, search_country, tuition_fee, url, scraped_at,
          requirements) ==
    [kind |-> "dict", title |-> title, university |-> university, country |-> country,
     search_country |-> search_country, city |-> Absent,
     search_discipline |-> PyStr(<<"I", "T">>), duration |-> Absent, tuition_fee |-> tuition_fee,
     deadline |-> Absent, url |-> url, scraped_at |-> scraped_at,
     requirements |-> requirements, overview |-> Absent, subjects |-> Absent]

BatchPrograms ==
    {RawRecord(title, TU, country, Absent,
               IF country = DE THEN PyStr(<<"1", "5", "0">>) ELSE PyStr(<<"3", "5", "0">>),
               IF country = DE THEN PyStr(<<"u", "/", "a">>) ELSE PyStr(<<"v", "/", "a">>),
               PyStr(<<"t", "0">>), Absent) :
        title \in {PyStr(<<"C", "S">>), PyStr(<<"L", "a", "w">>)}, country \in {DE, FR}}
    \cup
    {RawRecord(title, MIT, Absent, NL, PyStr(<<"$", "1", "0", "0">>), Absent, Absent,
               PyStr(<<"E", "n", "g", "l", "i", "s", "h", ",", " ", "T", "O", "E", "F", "L", " ", "9", "0">>)) :
        title \in {Absent, PyStr(<<"A", "r", "t">>)}}

FlatProfile(budget, countries, toefl) ==
    [gpa |-> Absent, degree_level |-> Absent, field_of_study |-> Absent,
     sat_score |-> Absent, toefl_score |-> toefl, ielts_score |-> Absent,
     duolingo_score |-> Absent, preferred_countries |-> countries,
     budget_range |-> budget, funding_sources |-> Absent, languages |-> Absent]

NestedProfile(budget, countries, toefl) ==
    [preferences |-> [kind |-> "dict", budget_eur |-> budget, countries |-> countries],
     academic |-> [kind |-> "dict",
                   test_scores |-> [kind |-> "dict", toefl |-> toefl, ielts |-> Absent,
                                    duolingo |-> Absent]]]

NoNested == [preferences |-> Absent, academic |-> Absent]
NoFlat == FlatProfile(Absent, Absent, Absent)

\* the mapping holding the keys of both records
Profile(nested, flat) ==
    [k \in {"kind"} \cup DOMAIN nested \cup DOMAIN flat |->
        IF k = "kind" THEN "dict"
        ELSE IF k \in DOMAIN nested THEN nested[k] ELSE flat[k]]

BatchProfiles ==
    {None,
     Profile(NoNested, NoFlat),
     Profile(NoNested, FlatProfile(PyInt(100), PyList(<<DE>>), PyInt(95))),
     Profile(NestedProfile(PyInt(100), PyList(<<DE>>), PyInt(95)), NoFlat),
     Profile(NestedProfile(PyInt(100), PyList(<<DE>>), PyInt(80)),
             FlatProfile(PyInt(200), PyList(<<FR>>), PyInt(95))),
     Profile(NestedProfile(None, PyList(<<>>), Absent), NoFlat),
     Profile(NestedProfile(PyInt(-100), PyList(<<DE>>), PyInt(95)),
             FlatProfile(PyInt(-100), PyList(<<DE>>), PyInt(95)))}

\* batches around the size of the top-matches snapshot, cycling through three
\* records with three different tuitions
MaxOverflow == 1

CycleRecords ==
    <<RawRecord(PyStr(<<"C", "S">>), TU, DE, Absent, PyStr(<<"1", "5", "0">>),
                PyStr(<<"u", "/", "a">>), PyStr(<<"t", "0">>), Absent),
      RawRecord(PyStr(<<"A", "r", "t">>), MIT, Absent, NL, PyStr(<<"$", "1", "0", "0">>),
                Absent, PyStr(<<"t", "0">>), Absent),
      RawRecord(PyStr(<<"L", "a", "w">>), TU, FR, Absent, PyStr(<<"3", "5", "0">>),
                PyStr(<<"u", "/", "b">>), PyStr(<<"t", "0">>), Absent)>>

LargeBatches ==
    {[i \in 1..(TopMatches + k) |-> CycleRecords[(i % 3) + 1]] : k \in 0..MaxOverflow}

ScrapedData ==
    {[kind |-> "dict", programs |-> Absent]}
    \cup {[kind |-> "dict", programs |-> PyList(l)] : l \in SeqsUpTo(BatchPrograms, MaxBatch)}
    \cup {[kind |-> "dict", programs |-> PyList(l)] : l \in LargeBatches}

InitPipeline ==
    /\ pc = "call"
    /\ requirements_in = Unused /\ lang_reqs = Unused
    /\ scraped_data \in ScrapedData
    /\ sample_user_profile \in BatchProfiles
    /\ output = Unused
    /\ programs = Unused /\ university_data = Unused
    /\ tuition_str = Unused /\ tuition_ret = Unused
    /\ program = Unused /\ processed = Unused
    /\ user_profile = Unused /\ scored_program = Unused /\ scores = Unused

\* the clock does not run backwards: n readings of datetime.now()
Timestamps(n) ==
    {[i \in 1..n |-> IF i <= k THEN PyStr(<<"t", "1">>) ELSE PyStr(<<"t", "2">>)] : k \in 0..n}

\* programs and university_data record the call of create_university_profile
\* made inside process_all_data (on the list before it is sorted)
ProcessAllData ==
    /\ pc = "call"
    /\ scraped_data # Unused
    /\ \E nows \in Timestamps(Len(GetOr(scraped_data, "programs", PyList(<<>>)).val) + 1) :
       \E list \in {ProcessedPrograms(scraped_data, sample_user_profile, nows)} :
       \E profiles \in {IF IsRaise(list) THEN <<>> ELSE create_university_profile(list.val)} :
          /\ programs' = list
          /\ university_data' = IF IsRaise(list) THEN Unused
                                ELSE [kind |-> "dict", items |-> profiles]
          /\ output' = IF IsRaise(list) THEN list
                       ELSE Envelope(list.val, profiles, sample_user_profile,
                                     nows[Len(nows)])
    /\ pc' = "done"
    /\ UNCHANGED <<tuition_str, tuition_ret, program, processed, user_profile,
                   scored_program, scores, scraped_data, sample_user_profile,
                   requirements_in, lang_reqs>>

NextPipeline == ProcessAllData

SpecPipeline == InitPipeline /\ [][NextPipeline]_vars

OutputReturned == pc = "done" /\ output # Unused /\ output.kind = "dict"

ScoreNames == {"academic_fit", "financial_fit", "location_fit", "language_fit", "overall_fit"}

\* the bijections of 1..n
IndexPermutations(n) ==
    {f \in [1..n -> 1..n] : \A i, j \in 1..n : i # j => f[i] # f[j]}

\* the programs of list whose overall_fit is key, in the order of list
WithKey(list, key) ==
    LET HasKey(p) == NumEq(SortKey(p), key)
    IN  SelectSeq(list, HasKey)

\* C3: with a user profile, the returned programs are in non-increasing order
\* of overall_fit, programs of equal overall_fit keep the relative order their
\* records had in the batch, and sorting the returned list again changes nothing.
C3_StableDescending ==
    (OutputReturned /\ Supplied(sample_user_profile))
    => LET before == programs.val
           after == output.programs.val
           n == Len(before)
       IN  /\ Len(after) = n
           /\ \A i, j \in 1..n :
                 i < j => ~NumLess(SortKey(after[i]), SortKey(after[j]))
           /\ \A k \in 1..n : WithKey(after, SortKey(before[k])) = WithKey(before, SortKey(before[k]))
           /\ SortDescending(after) = after

\* a batch was sorted in which two different programs tie and the sort moved
\* a program
C3_Witness ==
    /\ OutputReturned /\ Supplied(sample_user_profile)
    /\ output.programs # programs
    /\ \E i, j \in 1..Len(programs.val) :
          /\ i < j
          /\ programs.val[i] # programs.val[j]
          /\ NumEq(SortKey(programs.val[i]), SortKey(programs.val[j]))

\* C8: in every returned program each of the five matching scores lies in
\* [0,1]; all are 0.0 when no user profile was supplied, and with a profile
\* overall_fit = 0.30 academic + 0.25 financial + 0.25 location + 0.20 language.
C8_ScoresInUnitInterval ==
    OutputReturned
    => \A i \in 1..Len(output.programs.val) :
          LET ms == output.programs.val[i].matching_scores
          IN  /\ \A k \in ScoreNames : 0 <= Num(ms[k]) /\ Num(ms[k]) <= Den(ms[k])
              /\ ~Supplied(sample_user_profile) => \A k \in ScoreNames : Num(ms[k]) = 0
              /\ Supplied(sample_user_profile)
                    => NumEq(NumMul(ms.overall_fit, PyInt(100)),
                             NumAdd(NumAdd(NumMul(ms.academic_fit, PyInt(30)),
                                           NumMul(ms.financial_fit, PyInt(25))),
                                    NumAdd(NumMul(ms.location_fit, PyInt(25)),
                                           NumMul(ms.language_fit, PyInt(20)))))

(***************************************************************************)
(* extract_language_requirements on its own: every text built from a few   *)
(* tokens, and every list of up to two short texts                         *)
(***************************************************************************)
MaxReqTokens == 3

ReqTokens == {<<"t", "o", "e", "f", "l">>, <<"I", "E", "L", "T", "S">>, <<"d", "u", "o", "l", "i", "n", "g", "o">>, <<"E", "n", "g", "l", "i", "s", "h">>, <<" ">>, <<"9">>, <<"6">>, <<"5">>, <<".">>, <<"\n">>}

RECURSIVE TokenTexts(_)
TokenTexts(n) ==
    IF n = 0 THEN {<<>>}
    ELSE LET shorter == TokenTexts(n - 1)
         IN  shorter \cup {s \o t : s \in shorter, t \in ReqTokens}

RequirementInputs ==
    {None, Absent}
    \cup {PyStr(s) : s \in TokenTexts(MaxReqTokens)}
    \cup {PyList(<<a, b>>) : a, b \in TokenTexts(1)}

InitLanguage ==
    /\ pc = "call"
    /\ requirements_in \in RequirementInputs
    /\ lang_reqs = Unused
    /\ tuition_str = Unused /\ tuition_ret = Unused
    /\ program = Unused /\ processed = Unused
    /\ user_profile = Unused /\ scored_program = Unused /\ scores = Unused
    /\ programs = Unused /\ university_data = Unused
    /\ scraped_data = Unused /\ sample_user_profile = Unused /\ output = Unused

ExtractLanguageRequirements ==
    /\ pc = "call"
    /\ requirements_in # Unused
    /\ lang_reqs' = extract_language_requirements(requirements_in)
    /\ pc' = "done"
    /\ UNCHANGED <<tuition_str, tuition_ret, program, processed, user_profile,
                   scored_program, scores, programs, university_data, scraped_data,
                   sample_user_profile, output, requirements_in>>

NextLanguage == ExtractLanguageRequirements

SpecLanguage == InitLanguage /\ [][NextLanguage]_vars

\* the text the keywords are looked up in
RequirementText ==
    Lower(IF requirements_in.kind = "list" THEN Join(<< " " >>, requirements_in.val)
          ELSE requirements_in.val)

\* some occurrence of the keyword has a digit somewhere after it
NumberFollows(text, keyword) ==
    \E i \in 1..Len(text) :
        /\ WordAt(text, i, keyword)
        /\ \E k \in (i + Len(keyword))..Len(text) : text[k] \in Digits

KeywordFields ==
    {<<<<"t", "o", "e", "f", "l">>, "toefl_min">>, <<<<"i", "e", "l", "t", "s">>, "ielts_min">>, <<<<"d", "u", "o", "l", "i", "n", "g", "o">>, "duolingo_min">>}

\* C11: for every string or list of strings in which 'toefl', 'ielts' or
\* 'duolingo' is not followed by a number (a keyword followed only by a full
\* stop included), extract_language_requirements raises no error, leaves the
\* corresponding minimum undefined and still reports the English requirement.
C11_ToleratesMissingNumber ==
    (pc = "done" /\ requirements_in # Unused /\ requirements_in.kind \in {"str", "list"})
    => \A kf \in KeywordFields :
          ~NumberFollows(RequirementText, kf[1])
          => /\ ~IsRaise(lang_reqs)
             /\ lang_reqs[kf[2]] = None
             /\ lang_reqs.english_required = PyBool(Contains(RequirementText, <<"e", "n", "g", "l", "i", "s", "h">>))

\* C12: matching_data.user_profile carries the values the programs were scored
\* with: the budget_eur, the country list and the toefl/ielts/duolingo scores
\* that calculate_basic_match_scores read from the supplied profile.
C12_BundledProfileIsScoredProfile ==
    (OutputReturned /\ Supplied(sample_user_profile) /\ output.programs.val # <<>>)
    => LET bundled == output.matching_data.user_profile
           read == sample_user_profile
       IN  /\ bundled.preferences.budget_eur = read.preferences.budget_eur
           /\ bundled.preferences.countries = read.preferences.countries
           /\ \A t \in {"toefl", "ielts", "duolingo"} :
                 bundled.academic.test_scores[t] = Get(read.academic.test_scores, t)

\* C13: the output holds matching_data exactly when a user profile was
\* supplied, and then matching_data.programs is the first min(50, n) entries
\* of the sorted programs list, so no program left out has a higher
\* overall_fit than a program in it.
C13_TopMatchesSnapshot ==
    OutputReturned
    => /\ (output.matching_data # Absent) <=> Supplied(sample_user_profile)
       /\ Supplied(sample_user_profile)
             => LET sorted == output.programs.val
                    top == output.matching_data.programs.val
                    m == IF Len(sorted) < TopMatches THEN Len(sorted) ELSE TopMatches
                IN  /\ Len(top) = m
                    /\ \A i \in 1..m : top[i] = sorted[i]
                    /\ \A i \in 1..m : \A j \in (m + 1)..Len(sorted) :
                          NumLeq(SortKey(sorted[j]), SortKey(top[i]))

\* a scored batch of more than 50 programs, from which a program with a lower
\* overall_fit than one of the snapshot is left out
C13_Witness ==
    /\ OutputReturned /\ Supplied(sample_user_profile)
    /\ Len(output.programs.val) > TopMatches
    /\ Len(output.matching_data.programs.val) = TopMatches
    /\ NumLess(SortKey(output.programs.val[Len(output.programs.val)]),
               SortKey(output.matching_data.programs.val[1]))

\* the raw records of the batch, in input order
RawBatch == GetOr(scraped_data, "programs", PyList(<<>>)).val

\* C14: ids are unique within a batch: canonical programs produced from two
\* different raw records never have the same id, whether it comes from the
\* last segment of the url or from the title fallback.
C14_UniqueIds ==
    (OutputReturned /\ programs # Unused /\ ~IsRaise(programs))
    => \A i, j \in 1..Len(programs.val) :
          RawBatch[i] # RawBatch[j] => programs.val[i].id # programs.val[j].id

\* a profile with its program ids taken as a set
Unordered(profile) == [profile EXCEPT !.programs = {profile.programs[i] : i \in 1..Len(profile.programs)}]

\* profiles equal in every field, the order of the program ids aside
SameProfiles(a, b) ==
    /\ DOMAIN a = DOMAIN b
    /\ \A n \in DOMAIN a : Unordered(a[n]) = Unordered(b[n])

\* C15: create_university_profile does not depend on the order of its input
\* except for the order of the program ids: every reordering of the same
\* canonical programs gives every institution the same country, city and
\* discipline sets, the same min, max and avg tuition and the same set of ids.
C15_OrderIndependent ==
    (ProfilesReturned /\ university_data.kind = "dict")
    => \A f \in IndexPermutations(Len(programs.val)) :
          SameProfiles(university_data.items,
                       create_university_profile([i \in 1..Len(programs.val) |-> programs.val[f[i]]]))

\* profiles of a list in which one institution has two programs with different
\* ids, cities and defined tuitions, so that reversing the list reverses its ids
C15_Witness ==
    /\ ProfilesReturned /\ university_data.kind = "dict"
    /\ \E i, j \in 1..Len(programs.val) :
          LET p == programs.val[i]
              q == programs.val[j]
          IN  /\ i < j /\ p.university = q.university /\ p.id # q.id /\ p.city # q.city
              /\ Truthy(p.tuition_eur) /\ Truthy(q.tuition_eur)
              /\ p.tuition_eur # q.tuition_eur
              /\ Len(university_data.items[p.university].programs) >= 2
              /\ university_data.items[p.university].min_tuition
                    # university_data.items[p.university].max_tuition

\* the number of positions of seq that hold x
Count(seq, x) == Cardinality({i \in 1..Len(seq) : seq[i] = x})

\* C16: process_all_data neither drops nor duplicates records: the returned
\* list holds one canonical program per raw record (the sort only permutes
\* them), metadata.total_programs is the batch size, total_universities is
\* the number of distinct university values, and each program's id appears
\* exactly once in the program list of its own institution's profile and in
\* no other profile.
C16_NoDropNoDuplicate ==
    (OutputReturned /\ programs # Unused /\ ~IsRaise(programs))
    => LET returned == output.programs.val
           n == Len(RawBatch)
           profiles == output.universities.items
       IN  /\ Len(programs.val) = n /\ Len(returned) = n
           /\ \A i \in 1..n :
                 /\ programs.val[i].title = RawBatch[i].title
                 /\ programs.val[i].university = RawBatch[i].university
                 /\ Count(returned, programs.val[i]) = Count(programs.val, programs.val[i])
           /\ output.metadata.total_programs = PyInt(n)
           /\ output.metadata.total_universities
                 = PyInt(Cardinality({returned[i].university : i \in 1..n}))
           /\ \A i \in 1..n : \A u \in DOMAIN profiles :
                 Count(profiles[u].programs, returned[i].id)
                    = IF u = returned[i].university THEN 1 ELSE 0

====
